---- MODULE Spec2Model ----
(***************************************************************************)
(* generate_structured_output (structured_tool_agent.py): a bounded loop   *)
(* that alternates Model Client calls and tool invocations until the model *)
(* "calls" the output schema, or the execution budget is used up and one   *)
(* schema-only call is made.                                               *)
(*                                                                         *)
(* Every invocation is a process p.  Its position is pc[p], named after    *)
(* the source line of the await it is suspended at:                        *)
(*   "start"  not yet entered           "L43"  awaiting the structured call*)
(*   "L53"    awaiting the first turn   "L57"  at the head of the for loop *)
(*   "L76"    in the tool-call loop     "L81"  awaiting tool.ainvoke       *)
(*   "L100"   awaiting a follow-up turn "L103" awaiting the forced call    *)
(*   "returned", "failed"  terminal     "off"  the invocation is not run   *)
(***************************************************************************)
EXTENDS Integers, Sequences, FiniteSets, TLC

\* ---------------------------------------------------------------- bounds

\* max_executions is drawn from 0..MaxBudget.
MaxBudget == 3

\* The model emits at most MaxRequests tool-call requests, over all its
\* any-of-set turns, in a run of one invocation.
MaxRequests == 3

\* In a run of two concurrent invocations max_executions is drawn from
\* 0..ConcMaxBudget, and the model emits at most ConcMaxRequests requests
\* over both invocations.
ConcMaxBudget == 2
ConcMaxRequests == 1

Procs == {1, 2}

\* ------------------------------------------------------------ data model

\* structure.__name__ of the output schema.
SchemaName == "BookOutput"

\* The name of the registered tool.
ToolName == "collect_book_reviews"

\* A name the model may request that no registered tool carries.
UnknownName == "lookup_author"

\* BookOutput.target_audience: the Literal's values.
Audiences == {"kids", "teens", "young adult", "adult", "elderly"}

\* BookOutput.reading_level: Field(gt=0, lt=6).
ReadingLevelGt == 0
ReadingLevelLt == 6

SchemaFields == {"target_audience", "reading_level"}

\* Argument mappings of a tool-call request (tool_call["args"]).
\* ValidArgs carries a key the schema does not declare; InvalidArgs has a
\* reading level that is not below 6.
EmptyArgs == [k \in {} |-> ""]
ValidArgs == [target_audience |-> "young adult", reading_level |-> 5, rationale |-> "r"]
InvalidArgs == [target_audience |-> "young adult", reading_level |-> 6]
ToolArgs == [book_title |-> "Tomorrow"]

SchemaArgChoices == {EmptyArgs, ValidArgs, InvalidArgs}

\* Mutant: `structure_tool_call["args"] is None`, which no mapping satisfies.
ArgsFalsyMutIsNone(args) == FALSE

\* `not structure_tool_call["args"]`: an empty mapping is falsy.
ArgsFalsy(args) == DOMAIN args = {}

\* Mutant: reading_level declared with le=6.
ValidatesMutLe(args) ==
    /\ SchemaFields \subseteq DOMAIN args
    /\ args.target_audience \in Audiences
    /\ args.reading_level > ReadingLevelGt
    /\ args.reading_level <= ReadingLevelLt

\* pydantic's validation of BookOutput(**args): both fields are required,
\* target_audience is one of the Literal's values, 0 < reading_level < 6.
Validates(args) ==
    /\ SchemaFields \subseteq DOMAIN args
    /\ args.target_audience \in Audiences
    /\ args.reading_level > ReadingLevelGt
    /\ args.reading_level < ReadingLevelLt

\* The fields of the instance BookOutput(**args): the schema's fields,
\* keys the schema does not declare are ignored.
InstanceFields(args) == [f \in SchemaFields |-> args[f]]

\* What a Model Client call or the loop yields: a validated instance, a raw
\* model turn (AIMessage) with its tool_calls, or an exception.
NoReply == [kind |-> "none", tool_calls |-> <<>>, fields |-> EmptyArgs, error |-> ""]
Instance(fields) == [kind |-> "instance", tool_calls |-> <<>>, fields |-> fields, error |-> ""]
Turn(tool_calls) == [kind |-> "turn", tool_calls |-> tool_calls, fields |-> EmptyArgs, error |-> ""]
Raised(error) == [kind |-> "error", tool_calls |-> <<>>, fields |-> EmptyArgs, error |-> error]

EmptyCallError == "Exception: Tool call result empty"

\* Messages of the conversation.
NoId == <<0, 0, 0>>
SystemMessage == [role |-> "system", tool_calls |-> <<>>, content |-> <<"classify">>, tool_call_id |-> NoId]
HumanMessage == [role |-> "human", tool_calls |-> <<>>, content |-> <<"Chapter 1">>, tool_call_id |-> NoId]
AIMessage(turn) == [role |-> "assistant", tool_calls |-> turn.tool_calls, content |-> <<>>, tool_call_id |-> NoId]
ToolMessage(content, id) == [role |-> "tool", tool_calls |-> <<>>, content |-> content, tool_call_id |-> id]

\* content=str(tool_result) and content=f"Error: {str(e)}".
StrResult(r) == <<r>>
ErrorContent(e) == <<"Error: ", e>>

ToolOutputs == {"['review']"}
ToolErrors == {"boom"}

\* The tool objects a caller may register.  fn tells apart two objects that
\* carry the same name; a plain callable has no `name` attribute.
Reviews == [hasName |-> TRUE, name |-> ToolName, fn |-> "reviews"]
Reviews2 == [hasName |-> TRUE, name |-> ToolName, fn |-> "reviews2"]
Plain == [hasName |-> FALSE, name |-> "", fn |-> "plain"]
Structure == [hasName |-> FALSE, name |-> SchemaName, fn |-> "schema"]

\* The caller's `tools` argument: None, or a list.
ToolsNone == [none |-> TRUE, items |-> <<>>]
ToolsList(items) == [none |-> FALSE, items |-> items]
ToolsChoices ==
    {ToolsNone, ToolsList(<<>>), ToolsList(<<Reviews>>),
     ToolsList(<<Plain, Reviews, Reviews2>>)}

\* ----------------------------------------------------------------- state

VARIABLES
    callerMessages,  \* the list object the caller passed as `messages`
    callerTools,     \* the caller's `tools` argument
    budget,          \* budget[p]: max_executions
    pc,              \* pc[p]: where invocation p is
    msgRef,          \* msgRef[p]: "caller" while the local `messages` is the
                     \* caller's list object, "local" once line 99 rebound it
    messages,        \* messages[p]: the list line 99 built
    response,        \* response[p]: the latest model turn
    iter,            \* iter[p]: iterations of the for loop completed
    tool_messages,   \* tool_messages[p]: line 74's list
    callIdx,         \* callIdx[p]: position of line 76's loop in tool_calls
    calls,           \* calls[p]: the Model Client calls issued, in order
    received,        \* received[p]: what those calls returned, in order
    invocations,     \* invocations[p]: the tool.ainvoke calls made, in order,
                     \* each with how it ended
    result           \* result[p]: what the invocation returned or raised

vars ==
    <<callerMessages, callerTools, budget, pc, msgRef, messages, response, iter,
      tool_messages, callIdx, calls, received, invocations, result>>

\* The value of the local variable `messages`.
Msgs(p) == IF msgRef[p] = "caller" THEN callerMessages ELSE messages[p]

\* Mutant: `tools is None`, which lets the empty list through.
NoToolsMutNone(tools) == tools.none

\* `not tools`: None and the empty list are falsy.
NoTools(tools) == tools.none \/ Len(tools.items) = 0

\* Mutant: assert max_executions >= 0.
BudgetOkMutZero(b) == b >= 0

\* assert max_executions >= 1
BudgetOk(b) == b >= 1

\* range(max_executions - 1) has not run out after i iterations.
InRange(i, b) == i < b - 1

\* A Model Client call: how the model was bound and the conversation sent.
StructuredCall(msgs) ==
    [api |-> "with_structured_output", bound |-> <<Structure>>, messages |-> msgs]
ToolsCall(bound, msgs) ==
    [api |-> "bind_tools", bound |-> bound, messages |-> msgs]

\* all_tools = tools + [structure]
AllTools(tools) == tools.items \o <<Structure>>

IsStructured(c) == c.api = "with_structured_output"
IsForced(c) == c.api = "bind_tools" /\ c.bound = <<Structure>>
IsAnyOfSet(c) == c.api = "bind_tools" /\ c.bound # <<Structure>>

\* ------------------------------------------------------- the model's turns

NameArgs ==
    ({SchemaName} \X SchemaArgChoices) \cup ({ToolName, UnknownName} \X {ToolArgs})

\* The turns of n requests the model may return as the t-th turn of
\* invocation p; the correlation id of the i-th request of that turn is
\* <<t, i, p>>: no two requests of a run share an id.
TurnsOfLen(p, t, n) ==
    {Turn([i \in 1..n |-> [name |-> f[i][1], args |-> f[i][2], id |-> <<t, i, p>>]]) :
        f \in [1..n -> NameArgs]}

\* Requests emitted by the model in the first k replies to invocation p,
\* those to any-of-set calls.
RECURSIVE EmittedUpTo(_, _)
EmittedUpTo(p, k) ==
    IF k = 0 THEN 0
    ELSE (IF IsAnyOfSet(calls[p][k]) THEN Len(received[p][k].tool_calls) ELSE 0)
         + EmittedUpTo(p, k - 1)

Emitted(p) == EmittedUpTo(p, Len(received[p]))

\* Requests emitted so far, over all invocations.
RECURSIVE EmittedBy(_)
EmittedBy(ps) ==
    IF ps = {} THEN 0
    ELSE LET q == CHOOSE x \in ps : TRUE
         IN  Emitted(q) + EmittedBy(ps \ {q})

\* The turns the model may return as the t-th turn of invocation p when it
\* may still emit r requests.
AnyOfSetTurnsTable ==
    [p \in Procs, t \in 1..(MaxBudget + 1), r \in 0..MaxRequests |->
        UNION {TurnsOfLen(p, t, n) : n \in 0..r}]

\* The requests the model may emit in the run.
RequestLimit ==
    IF \A q \in Procs : pc[q] # "off" THEN ConcMaxRequests ELSE MaxRequests

AnyOfSetTurns(p) ==
    AnyOfSetTurnsTable[p, Len(received[p]) + 1, RequestLimit - EmittedBy(Procs)]

\* Under the schema-only policy the model returns one schema-named request.
ForcedTurns(p) ==
    {Turn(<<[name |-> SchemaName, args |-> a, id |-> <<Len(received[p]) + 1, 1, p>>]>>) :
        a \in SchemaArgChoices}

\* ------------------------------------------------------------ inspection

\* Mutant: only the first request of the turn is compared with the schema's
\* name.
SchemaIdxMutFirstOnly(tool_calls) ==
    IF Len(tool_calls) >= 1 /\ tool_calls[1].name = SchemaName THEN 1 ELSE 0

\* Mutant: lines 58-63 without the break, which keeps the last match.
SchemaIdxMutLast(tool_calls) ==
    LET S == {i \in 1..Len(tool_calls) : tool_calls[i].name = SchemaName}
    IN  IF S = {} THEN 0 ELSE CHOOSE i \in S : \A j \in S : j <= i

\* Lines 58-63: the first request of the turn named after the schema (0: none).
SchemaIdx(tool_calls) ==
    LET S == {i \in 1..Len(tool_calls) : tool_calls[i].name = SchemaName}
    IN  IF S = {} THEN 0 ELSE CHOOSE i \in S : \A j \in S : i <= j

\* Lines 78-79: the first registered tool that has a name, the requested one.
ToolIdx(tools, name) ==
    LET S == {i \in 1..Len(tools) : tools[i].hasName /\ tools[i].name = name}
    IN  IF S = {} THEN 0 ELSE CHOOSE i \in S : \A j \in S : i <= j

\* ------------------------------------------------------------------ Init

InitProc(active) ==
    /\ callerMessages = <<SystemMessage, HumanMessage>>
    /\ callerTools \in ToolsChoices
    /\ budget \in [Procs -> 0..MaxBudget]
    /\ \A p \in Procs : p \notin active => budget[p] = 0
    /\ pc = [p \in Procs |-> IF p \in active THEN "start" ELSE "off"]
    /\ msgRef = [p \in Procs |-> "caller"]
    /\ messages = [p \in Procs |-> <<>>]
    /\ response = [p \in Procs |-> NoReply]
    /\ iter = [p \in Procs |-> 0]
    /\ tool_messages = [p \in Procs |-> <<>>]
    /\ callIdx = [p \in Procs |-> 0]
    /\ calls = [p \in Procs |-> <<>>]
    /\ received = [p \in Procs |-> <<>>]
    /\ invocations = [p \in Procs |-> <<>>]
    /\ result = [p \in Procs |-> NoReply]

\* One invocation.
Init == InitProc({1})

\* Two invocations started on the same `messages` list and the same `tools`
\* list, each with its own budget.
ConcInit == InitProc(Procs) /\ \A p \in Procs : budget[p] <= ConcMaxBudget

\* --------------------------------------------------------------- actions

\* Line 36: the assertion fails; nothing else has happened.
AssertFails(p) ==
    /\ pc[p] = "start"
    /\ ~BudgetOk(budget[p])
    /\ pc' = [pc EXCEPT ![p] = "failed"]
    /\ result' = [result EXCEPT ![p] = Raised("AssertionError")]
    /\ UNCHANGED <<callerMessages, callerTools, budget, msgRef, messages, response,
                   iter, tool_messages, callIdx, calls, received, invocations>>

\* Lines 41-43: no tools, the structured call is issued.
CallStructured(p) ==
    /\ pc[p] = "start"
    /\ BudgetOk(budget[p])
    /\ NoTools(callerTools)
    /\ calls' = [calls EXCEPT ![p] = Append(@, StructuredCall(Msgs(p)))]
    /\ pc' = [pc EXCEPT ![p] = "L43"]
    /\ UNCHANGED <<callerMessages, callerTools, budget, msgRef, messages, response,
                   iter, tool_messages, callIdx, received, invocations, result>>

\* Lines 43-45: the structured call returns a validated instance, which is
\* returned as it is.
StructuredReturns(p) ==
    /\ pc[p] = "L43"
    /\ \E a \in {x \in SchemaArgChoices : Validates(x)} :
          /\ received' = [received EXCEPT ![p] = Append(@, Instance(InstanceFields(a)))]
          /\ result' = [result EXCEPT ![p] = Instance(InstanceFields(a))]
    /\ pc' = [pc EXCEPT ![p] = "returned"]
    /\ UNCHANGED <<callerMessages, callerTools, budget, msgRef, messages, response,
                   iter, tool_messages, callIdx, calls, invocations>>

\* Any awaited Model Client call may raise (the structured call also with a
\* validation error); nothing catches it.
ModelCallRaises(p) ==
    /\ pc[p] \in {"L43", "L53", "L100", "L103"}
    /\ \E e \in (IF pc[p] = "L43" THEN {"ValidationError", "APIError"} ELSE {"APIError"}) :
          /\ received' = [received EXCEPT ![p] = Append(@, Raised(e))]
          /\ result' = [result EXCEPT ![p] = Raised(e)]
    /\ pc' = [pc EXCEPT ![p] = "failed"]
    /\ UNCHANGED <<callerMessages, callerTools, budget, msgRef, messages, response,
                   iter, tool_messages, callIdx, calls, invocations>>

\* Mutant: tools.append(structure) in place of all_tools = tools + [structure].
CallFirstAppendsToTools(p) ==
    /\ pc[p] = "start"
    /\ BudgetOk(budget[p])
    /\ ~NoTools(callerTools)
    /\ callerTools' = [callerTools EXCEPT !.items = Append(@, Structure)]
    /\ calls' = [calls EXCEPT ![p] = Append(@, ToolsCall(AllTools(callerTools), Msgs(p)))]
    /\ pc' = [pc EXCEPT ![p] = "L53"]
    /\ UNCHANGED <<callerMessages, budget, msgRef, messages, response,
                   iter, tool_messages, callIdx, received, invocations, result>>

\* Lines 48-53: with tools, the first any-of-set call is issued.
CallFirst(p) ==
    /\ pc[p] = "start"
    /\ BudgetOk(budget[p])
    /\ ~NoTools(callerTools)
    /\ calls' = [calls EXCEPT ![p] = Append(@, ToolsCall(AllTools(callerTools), Msgs(p)))]
    /\ pc' = [pc EXCEPT ![p] = "L53"]
    /\ UNCHANGED <<callerMessages, callerTools, budget, msgRef, messages, response,
                   iter, tool_messages, callIdx, received, invocations, result>>

\* Lines 53-57: the first turn arrives; the for loop starts.
FirstResponse(p) ==
    /\ pc[p] = "L53"
    /\ \E t \in AnyOfSetTurns(p) :
          /\ received' = [received EXCEPT ![p] = Append(@, t)]
          /\ response' = [response EXCEPT ![p] = t]
    /\ iter' = [iter EXCEPT ![p] = 0]
    /\ pc' = [pc EXCEPT ![p] = "L57"]
    /\ UNCHANGED <<callerMessages, callerTools, budget, msgRef, messages,
                   tool_messages, callIdx, calls, invocations, result>>

\* Lines 57-72: the turn holds a schema-named request: the first such
\* request decides.  Empty arguments raise; otherwise structure(**args) is
\* returned, or its validation error propagates.
SchemaSelected(p) ==
    /\ pc[p] = "L57"
    /\ InRange(iter[p], budget[p])
    /\ SchemaIdx(response[p].tool_calls) # 0
    /\ LET args == response[p].tool_calls[SchemaIdx(response[p].tool_calls)].args
       IN  IF ArgsFalsy(args)
           THEN /\ result' = [result EXCEPT ![p] = Raised(EmptyCallError)]
                /\ pc' = [pc EXCEPT ![p] = "failed"]
           ELSE IF Validates(args)
           THEN /\ result' = [result EXCEPT ![p] = Instance(InstanceFields(args))]
                /\ pc' = [pc EXCEPT ![p] = "returned"]
           ELSE /\ result' = [result EXCEPT ![p] = Raised("ValidationError")]
                /\ pc' = [pc EXCEPT ![p] = "failed"]
    /\ UNCHANGED <<callerMessages, callerTools, budget, msgRef, messages, response,
                   iter, tool_messages, callIdx, calls, received, invocations>>

\* Lines 73-76: no schema-named request: the tool-call loop starts.
BeginDispatch(p) ==
    /\ pc[p] = "L57"
    /\ InRange(iter[p], budget[p])
    /\ SchemaIdx(response[p].tool_calls) = 0
    /\ tool_messages' = [tool_messages EXCEPT ![p] = <<>>]
    /\ callIdx' = [callIdx EXCEPT ![p] = 1]
    /\ pc' = [pc EXCEPT ![p] = "L76"]
    /\ UNCHANGED <<callerMessages, callerTools, budget, msgRef, messages, response,
                   iter, calls, received, invocations, result>>

\* Lines 76-81: the request's name is that of a registered tool; the first
\* such tool is invoked with the request's arguments.
InvokeTool(p) ==
    /\ pc[p] = "L76"
    /\ callIdx[p] <= Len(response[p].tool_calls)
    /\ LET tool_call == response[p].tool_calls[callIdx[p]]
           t == ToolIdx(callerTools.items, tool_call.name)
       IN  /\ t # 0
           /\ invocations' = [invocations EXCEPT ![p] =
                  Append(@, [tool |-> t, args |-> tool_call.args, id |-> tool_call.id,
                             outcome |-> "pending"])]
    /\ pc' = [pc EXCEPT ![p] = "L81"]
    /\ UNCHANGED <<callerMessages, callerTools, budget, msgRef, messages, response,
                   iter, tool_messages, callIdx, calls, received, result>>

\* Mutant: a request that matches no registered tool raises.
SkipRaises(p) ==
    /\ pc[p] = "L76"
    /\ callIdx[p] <= Len(response[p].tool_calls)
    /\ ToolIdx(callerTools.items, response[p].tool_calls[callIdx[p]].name) = 0
    /\ pc' = [pc EXCEPT ![p] = "failed"]
    /\ result' = [result EXCEPT ![p] = Raised("UnknownTool")]
    /\ UNCHANGED <<callerMessages, callerTools, budget, msgRef, messages, response,
                   iter, tool_messages, callIdx, calls, received, invocations>>

\* Mutant: an unmatched request is never left, the loop spins on it.
SkipNoAdvance(p) ==
    /\ pc[p] = "L76"
    /\ callIdx[p] <= Len(response[p].tool_calls)
    /\ ToolIdx(callerTools.items, response[p].tool_calls[callIdx[p]].name) = 0
    /\ UNCHANGED vars

\* Lines 76-79: no registered tool has the requested name; the inner loop
\* ends without a ToolMessage and the next request is taken.
SkipRequest(p) ==
    /\ pc[p] = "L76"
    /\ callIdx[p] <= Len(response[p].tool_calls)
    /\ ToolIdx(callerTools.items, response[p].tool_calls[callIdx[p]].name) = 0
    /\ callIdx' = [callIdx EXCEPT ![p] = @ + 1]
    /\ UNCHANGED <<callerMessages, callerTools, budget, pc, msgRef, messages, response,
                   iter, tool_messages, calls, received, invocations, result>>

\* Lines 81-88: the tool returns; its stringified result becomes a
\* ToolMessage with the request's id.
ToolReturns(p) ==
    /\ pc[p] = "L81"
    /\ \E r \in ToolOutputs :
          tool_messages' = [tool_messages EXCEPT ![p] =
              Append(@, ToolMessage(StrResult(r), response[p].tool_calls[callIdx[p]].id))]
    /\ invocations' = [invocations EXCEPT ![p][Len(invocations[p])].outcome = "returned"]
    /\ callIdx' = [callIdx EXCEPT ![p] = @ + 1]
    /\ pc' = [pc EXCEPT ![p] = "L76"]
    /\ UNCHANGED <<callerMessages, callerTools, budget, msgRef, messages, response,
                   iter, calls, received, result>>

\* Mutant: the except branch without its break: after a failure the inner
\* loop goes on to the next registered tool of the same name.
ToolRaisesTriesNext(p) ==
    /\ pc[p] = "L81"
    /\ \E e \in ToolErrors :
          tool_messages' = [tool_messages EXCEPT ![p] =
              Append(@, ToolMessage(ErrorContent(e), response[p].tool_calls[callIdx[p]].id))]
    /\ LET tool_call == response[p].tool_calls[callIdx[p]]
           n == Len(invocations[p])
           later == {t \in (invocations[p][n].tool + 1)..Len(callerTools.items) :
                        /\ callerTools.items[t].hasName
                        /\ callerTools.items[t].name = tool_call.name}
       IN  IF later = {}
           THEN /\ invocations' = [invocations EXCEPT ![p][n].outcome = "raised"]
                /\ callIdx' = [callIdx EXCEPT ![p] = @ + 1]
                /\ pc' = [pc EXCEPT ![p] = "L76"]
           ELSE /\ invocations' = [invocations EXCEPT ![p] =
                       Append([@ EXCEPT ![n].outcome = "raised"],
                              [tool |-> CHOOSE t \in later : \A u \in later : t <= u,
                               args |-> tool_call.args, id |-> tool_call.id,
                               outcome |-> "pending"])]
                /\ UNCHANGED <<callIdx, pc>>
    /\ UNCHANGED <<callerMessages, callerTools, budget, msgRef, messages, response,
                   iter, calls, received, result>>

\* Mutant: a failing tool ends the dispatch of the turn; the later requests
\* are not taken.
ToolRaisesAbort(p) ==
    /\ pc[p] = "L81"
    /\ \E e \in ToolErrors :
          tool_messages' = [tool_messages EXCEPT ![p] =
              Append(@, ToolMessage(ErrorContent(e), response[p].tool_calls[callIdx[p]].id))]
    /\ invocations' = [invocations EXCEPT ![p][Len(invocations[p])].outcome = "raised"]
    /\ callIdx' = [callIdx EXCEPT ![p] = Len(response[p].tool_calls) + 1]
    /\ pc' = [pc EXCEPT ![p] = "L76"]
    /\ UNCHANGED <<callerMessages, callerTools, budget, msgRef, messages, response,
                   iter, calls, received, result>>

\* Lines 89-96: the tool raises; the error text becomes a ToolMessage with
\* the request's id.
ToolRaises(p) ==
    /\ pc[p] = "L81"
    /\ \E e \in ToolErrors :
          tool_messages' = [tool_messages EXCEPT ![p] =
              Append(@, ToolMessage(ErrorContent(e), response[p].tool_calls[callIdx[p]].id))]
    /\ invocations' = [invocations EXCEPT ![p][Len(invocations[p])].outcome = "raised"]
    /\ callIdx' = [callIdx EXCEPT ![p] = @ + 1]
    /\ pc' = [pc EXCEPT ![p] = "L76"]
    /\ UNCHANGED <<callerMessages, callerTools, budget, msgRef, messages, response,
                   iter, calls, received, result>>

\* Mutant: messages.append(response); messages.extend(tool_messages), on the
\* list `messages` refers to, which is the caller's until it is rebound.
ReplayInPlace(p) ==
    /\ pc[p] = "L76"
    /\ callIdx[p] > Len(response[p].tool_calls)
    /\ LET new == Msgs(p) \o <<AIMessage(response[p])>> \o tool_messages[p]
       IN  /\ IF msgRef[p] = "caller"
              THEN callerMessages' = new /\ UNCHANGED messages
              ELSE messages' = [messages EXCEPT ![p] = new] /\ UNCHANGED callerMessages
           /\ calls' = [calls EXCEPT ![p] = Append(@, ToolsCall(AllTools(callerTools), new))]
    /\ pc' = [pc EXCEPT ![p] = "L100"]
    /\ UNCHANGED <<callerTools, budget, msgRef, response, iter,
                   tool_messages, callIdx, received, invocations, result>>

\* Lines 99-100: every request was taken; a new list holds the conversation,
\* the turn and the tool messages, and is sent under the any-of-set policy.
Replay(p) ==
    /\ pc[p] = "L76"
    /\ callIdx[p] > Len(response[p].tool_calls)
    /\ LET new == Msgs(p) \o <<AIMessage(response[p])>> \o tool_messages[p]
       IN  /\ messages' = [messages EXCEPT ![p] = new]
           /\ calls' = [calls EXCEPT ![p] = Append(@, ToolsCall(AllTools(callerTools), new))]
    /\ msgRef' = [msgRef EXCEPT ![p] = "local"]
    /\ pc' = [pc EXCEPT ![p] = "L100"]
    /\ UNCHANGED <<callerMessages, callerTools, budget, response, iter,
                   tool_messages, callIdx, received, invocations, result>>

\* Line 100: the follow-up turn arrives; the iteration is over.
NextResponse(p) ==
    /\ pc[p] = "L100"
    /\ \E t \in AnyOfSetTurns(p) :
          /\ received' = [received EXCEPT ![p] = Append(@, t)]
          /\ response' = [response EXCEPT ![p] = t]
    /\ iter' = [iter EXCEPT ![p] = @ + 1]
    /\ pc' = [pc EXCEPT ![p] = "L57"]
    /\ UNCHANGED <<callerMessages, callerTools, budget, msgRef, messages,
                   tool_messages, callIdx, calls, invocations, result>>

\* Lines 57, 103: the range has run out; the schema-only call is issued on
\* `messages`.
CallForced(p) ==
    /\ pc[p] = "L57"
    /\ ~InRange(iter[p], budget[p])
    /\ calls' = [calls EXCEPT ![p] = Append(@, ToolsCall(<<Structure>>, Msgs(p)))]
    /\ pc' = [pc EXCEPT ![p] = "L103"]
    /\ UNCHANGED <<callerMessages, callerTools, budget, msgRef, messages, response,
                   iter, tool_messages, callIdx, received, invocations, result>>

\* Line 103: what the schema-only call returned, a model turn, is returned.
ForcedReturns(p) ==
    /\ pc[p] = "L103"
    /\ \E t \in ForcedTurns(p) :
          /\ received' = [received EXCEPT ![p] = Append(@, t)]
          /\ result' = [result EXCEPT ![p] = t]
    /\ pc' = [pc EXCEPT ![p] = "returned"]
    /\ UNCHANGED <<callerMessages, callerTools, budget, msgRef, messages, response,
                   iter, tool_messages, callIdx, calls, invocations>>

Step(p) ==
    \/ AssertFails(p)
    \/ CallStructured(p)
    \/ StructuredReturns(p)
    \/ ModelCallRaises(p)
    \/ CallFirst(p)
    \/ FirstResponse(p)
    \/ SchemaSelected(p)
    \/ BeginDispatch(p)
    \/ InvokeTool(p)
    \/ SkipRequest(p)
    \/ ToolReturns(p)
    \/ ToolRaises(p)
    \/ Replay(p)
    \/ NextResponse(p)
    \/ CallForced(p)
    \/ ForcedReturns(p)

Next == \E p \in Procs : Step(p)

Spec == Init /\ [][Next]_vars

\* Every awaited call returns or raises, and the loop's own steps are taken.
LiveSpec == Init /\ [][Next]_vars /\ WF_vars(Next)

\* Two invocations, their steps interleaved at the awaits in any order.
ConcSpec == ConcInit /\ [][Next]_vars

Terminal(p) == pc[p] \in {"returned", "failed"}

\* ---------------------------------------------------------------- claims

Active(p) == pc[p] # "off"

\* The caller registered at least one tool (a non-empty list).
WithTools == ~callerTools.none /\ callerTools.items # <<>>

\* Positions of the schema-named requests of a turn, and the first of them.
SchemaRequests(turn) ==
    {i \in 1..Len(turn.tool_calls) : turn.tool_calls[i].name = SchemaName}
FirstSchemaRequest(turn) ==
    CHOOSE i \in SchemaRequests(turn) : \A j \in SchemaRequests(turn) : i <= j

\* The arguments satisfy BookOutput: an audience of the enumeration and a
\* reading level in 1..5.
Conforms(args) ==
    /\ SchemaFields \subseteq DOMAIN args
    /\ args["target_audience"] \in Audiences
    /\ args["reading_level"] \in 1..5

\* The turns the for loop inspects: the k-th received reply, k < budget.
Inspected(p) ==
    {k \in 1..Len(received[p]) : k < budget[p] /\ received[p][k].kind = "turn"}

ForcedCalls(p) == {i \in 1..Len(calls[p]) : IsForced(calls[p][i])}

\* C1: with budget >= 1 and a non-empty tool set, an invocation never has
\* issued more than `budget` Model Client calls.
C1_CallsWithinBudget ==
    \A p \in Procs :
        (Active(p) /\ budget[p] >= 1 /\ WithTools) => Len(calls[p]) <= budget[p]

\* C2: with tools, when no inspected turn selected the schema and the
\* invocation returned, exactly one schema-only call was issued, it is the
\* last call, its result is the returned value, and `budget` calls were made.
C2_ForcedCompletionSpendsBudget ==
    \A p \in Procs :
        ( /\ pc[p] = "returned"
          /\ budget[p] >= 1
          /\ WithTools
          /\ \A k \in Inspected(p) : SchemaRequests(received[p][k]) = {} )
        => /\ Cardinality(ForcedCalls(p)) = 1
           /\ IsForced(calls[p][Len(calls[p])])
           /\ Len(received[p]) = Len(calls[p])
           /\ result[p] = received[p][Len(received[p])]
           /\ Len(calls[p]) = budget[p]

\* C3: a finished invocation has returned a validated schema instance or
\* has failed; it never returns a raw model turn.
C3_ValidatedOrFailed ==
    \A p \in Procs :
        /\ pc[p] = "returned" => (result[p].kind = "instance" /\ Conforms(result[p].fields))
        /\ pc[p] = "failed" => result[p].kind = "error"

\* C4: with tools absent or empty and any budget >= 1, only one call is
\* ever issued, it is the structured call, no tool is invoked, and the value
\* returned is that call's result.
C4_NoToolsFastPath ==
    \A p \in Procs :
        (Active(p) /\ budget[p] >= 1 /\ ~WithTools)
        => /\ Len(calls[p]) <= 1
           /\ \A i \in 1..Len(calls[p]) : IsStructured(calls[p][i])
           /\ invocations[p] = <<>>
           /\ pc[p] # "start" => Len(calls[p]) = 1
           /\ pc[p] = "returned"
                 => /\ Len(received[p]) = 1
                    /\ received[p][1].kind = "instance"
                    /\ result[p] = received[p][1]

C4_Witness ==
    /\ pc[1] = "returned"
    /\ callerTools = ToolsList(<<>>)
    /\ budget[1] = MaxBudget
    /\ result[1].kind = "instance"

\* C5 as stated: when the k-th turn, k < budget, holds a schema-named
\* request with non-empty arguments, k calls are all that is ever issued,
\* none of them forced, and the invocation returns the instance built from
\* such a request's arguments.
C5_AnySchemaRequestReturns ==
    \A p \in Procs : \A k \in Inspected(p) :
        LET NonEmpty == {i \in SchemaRequests(received[p][k]) :
                            received[p][k].tool_calls[i].args # EmptyArgs}
        IN  NonEmpty # {}
            => /\ Len(calls[p]) = k
               /\ ForcedCalls(p) = {}
               /\ pc[p] \in {"L57", "returned"}
               /\ pc[p] = "returned"
                     => \E i \in NonEmpty :
                           result[p] =
                               Instance(InstanceFields(received[p][k].tool_calls[i].args))

\* C5 as amended: when the FIRST schema-named request of the k-th turn,
\* k < budget, has non-empty arguments that satisfy the schema, k calls are
\* all that is ever issued, none of them forced, and the invocation returns
\* the instance built from exactly those arguments.
C5_FirstValidSchemaRequestReturns ==
    \A p \in Procs : \A k \in Inspected(p) :
        SchemaRequests(received[p][k]) # {}
        => LET args == received[p][k].tool_calls[FirstSchemaRequest(received[p][k])].args
           IN  (args # EmptyArgs /\ Conforms(args))
               => /\ Len(calls[p]) = k
                  /\ ForcedCalls(p) = {}
                  /\ pc[p] \in {"L57", "returned"}
                  /\ pc[p] = "returned"
                        => result[p] =
                              [kind |-> "instance", tool_calls |-> <<>>, error |-> "",
                               fields |-> [f \in SchemaFields |-> args[f]]]

C5_Witness ==
    /\ pc[1] = "returned"
    /\ budget[1] = 3
    /\ Len(calls[1]) = 2
    /\ Cardinality(SchemaRequests(received[1][2])) = 2
    /\ received[1][2].tool_calls[1].args = ValidArgs
    /\ result[1].kind = "instance"

\* C6 as stated: when an inspected turn k holds a schema-named request with
\* empty arguments, the invocation fails with the empty-call error, and
\* after turn k no call is issued and no tool is invoked.
C6_AnyEmptySchemaRequestFails ==
    \A p \in Procs : \A k \in Inspected(p) :
        (\E i \in SchemaRequests(received[p][k]) :
             received[p][k].tool_calls[i].args = EmptyArgs)
        => /\ Len(calls[p]) = k
           /\ \A j \in 1..Len(invocations[p]) : invocations[p][j].id[1] < k
           /\ pc[p] \in {"L57", "failed"}
           /\ pc[p] = "failed" => result[p] = Raised(EmptyCallError)

\* C6 as amended: when the FIRST schema-named request of an inspected turn k
\* has empty arguments, the invocation fails with the empty-call error, and
\* after turn k no call is issued and no tool is invoked.
C6_FirstEmptySchemaRequestFails ==
    \A p \in Procs : \A k \in Inspected(p) :
        ( /\ SchemaRequests(received[p][k]) # {}
          /\ received[p][k].tool_calls[FirstSchemaRequest(received[p][k])].args = EmptyArgs )
        => /\ Len(calls[p]) = k
           /\ \A j \in 1..Len(invocations[p]) : invocations[p][j].id[1] < k
           /\ pc[p] \in {"L57", "failed"}
           /\ pc[p] = "failed" => result[p] = Raised(EmptyCallError)

C6_Witness ==
    /\ pc[1] = "failed"
    /\ result[1] = Raised(EmptyCallError)
    /\ Len(calls[1]) = 2
    /\ Len(invocations[1]) = 1

\* The tool messages of a sequence of messages that carry correlation id `id`.
ResultsFor(msgs, id) ==
    {j \in 1..Len(msgs) : msgs[j].role = "tool" /\ msgs[j].tool_call_id = id}

\* The invocations of p that raised.
RaisedInvocations(p) ==
    {j \in 1..Len(invocations[p]) : invocations[p][j].outcome = "raised"}

\* A raised invocation of a request of turn k is recovered: the invocation
\* does not fail at it, one tool message with the request's id and the error
\* text is produced, and call k + 1 is issued on a conversation holding it.
ToolFailureIsolated ==
    \A p \in Procs : \A j \in RaisedInvocations(p) :
        LET id == invocations[p][j].id
            k == id[1]
        IN  /\ result[p].kind = "error" => result[p].error \notin ToolErrors
            /\ IF Len(calls[p]) > k
               THEN \E m \in ResultsFor(calls[p][k + 1].messages, id) :
                       /\ ResultsFor(calls[p][k + 1].messages, id) = {m}
                       /\ \E e \in ToolErrors :
                             calls[p][k + 1].messages[m].content = <<"Error: ", e>>
               ELSE /\ ~Terminal(p)
                    /\ Cardinality(ResultsFor(tool_messages[p], id)) = 1

\* C7: a tool failure is recovered as one error tool message that is replayed
\* to the model, and an invocation whose tools fail stays within its budget
\* of Model Client calls up to its end.
C7_ToolFailureRecoveredWithinBudget ==
    /\ ToolFailureIsolated
    /\ \A p \in Procs : RaisedInvocations(p) # {} => Len(calls[p]) <= budget[p]

\* C8: in every conversation sent to the Model Client, each request of each
\* assistant turn has exactly one tool message with its correlation id.
C8_EveryRequestAnswered ==
    \A p \in Procs : \A c \in 1..Len(calls[p]) :
        LET msgs == calls[p][c].messages
        IN  \A a \in 1..Len(msgs) :
                msgs[a].role = "assistant"
                => \A i \in 1..Len(msgs[a].tool_calls) :
                       Cardinality(ResultsFor(msgs, msgs[a].tool_calls[i].id)) = 1

\* C9: every invocation that is started eventually returns or fails.
C9_Terminates == \A p \in Procs : Active(p) ~> Terminal(p)

C9_Witness ==
    /\ pc[1] = "returned"
    /\ budget[1] = MaxBudget
    /\ Len(invocations[1]) >= 2
    /\ \A k \in 1..Len(received[1]) : received[1][k].kind = "turn"
    /\ \A k \in Inspected(1) : SchemaRequests(received[1][k]) = {}

\* C10: with budget < 1 the invocation issues no Model Client call and
\* invokes no tool, and it fails at the assertion.
C10_BudgetPrecondition ==
    \A p \in Procs :
        (Active(p) /\ budget[p] < 1)
        => /\ calls[p] = <<>>
           /\ invocations[p] = <<>>
           /\ pc[p] \in {"start", "failed"}
           /\ pc[p] = "failed" => result[p] = Raised("AssertionError")

C10_Witness ==
    /\ pc[1] = "failed"
    /\ budget[1] = 0
    /\ WithTools
    /\ result[1] = Raised("AssertionError")

\* C11: with tools and budget 1, at most one Model Client call is issued, it
\* is the schema-only call (never an any-of-set call), no tool is invoked,
\* and the value returned is that single call's result.
C11_BudgetOneIsSchemaOnlyCall ==
    \A p \in Procs :
        (Active(p) /\ budget[p] = 1 /\ WithTools)
        => /\ Len(calls[p]) <= 1
           /\ \A i \in 1..Len(calls[p]) : IsForced(calls[p][i])
           /\ invocations[p] = <<>>
           /\ pc[p] = "returned"
                 => (Len(received[p]) = 1 /\ result[p] = received[p][1])

\* The tool messages of a sequence of messages that answer requests of the
\* k-th turn.
ResultsOfTurn(msgs, k) ==
    {j \in 1..Len(msgs) : msgs[j].role = "tool" /\ msgs[j].tool_call_id[1] = k}

\* C12: when an inspected turn k holds a schema-named request at any
\* position, no tool is ever invoked for a request of turn k, and no tool
\* message for turn k exists: not in the list being built, not in the
\* conversation, not in any conversation sent to the Model Client.
C12_SchemaRequestPreemptsTools ==
    \A p \in Procs : \A k \in Inspected(p) :
        SchemaRequests(received[p][k]) # {}
        => /\ \A j \in 1..Len(invocations[p]) : invocations[p][j].id[1] # k
           /\ ResultsOfTurn(tool_messages[p], k) = {}
           /\ ResultsOfTurn(Msgs(p), k) = {}
           /\ \A c \in 1..Len(calls[p]) : ResultsOfTurn(calls[p][c].messages, k) = {}

C12_Witness ==
    /\ pc[1] = "returned"
    /\ WithTools
    /\ Len(received[1]) = 1
    /\ Len(received[1][1].tool_calls) = 3
    /\ received[1][1].tool_calls[1].name = ToolName
    /\ received[1][1].tool_calls[2].name = SchemaName
    /\ received[1][1].tool_calls[3].name = ToolName
    /\ invocations[1] = <<>>

\* The name is that of a registered tool (one that has a name).
Registered(name) ==
    \E i \in 1..Len(callerTools.items) :
        callerTools.items[i].hasName /\ callerTools.items[i].name = name

\* The turns that are dispatched: the inspected turns without a schema-named
\* request.
Dispatched(p) ==
    {k \in Inspected(p) : SchemaRequests(received[p][k]) = {}}

\* C13: in a dispatched turn k, a request whose name is not registered is
\* never invoked and never answered by a tool message, and it raises
\* nothing: the invocation does not end while turn k is the latest turn, and
\* call k + 1 is issued once the turn's requests were taken, with every
\* registered-name request of the turn invoked by then.
C13_UnknownToolSkipped ==
    \A p \in Procs : \A k \in Dispatched(p) :
        \A i \in 1..Len(received[p][k].tool_calls) :
            LET req == received[p][k].tool_calls[i]
            IN  ~Registered(req.name)
                => /\ \A j \in 1..Len(invocations[p]) : invocations[p][j].id # req.id
                   /\ ResultsFor(tool_messages[p], req.id) = {}
                   /\ ResultsFor(Msgs(p), req.id) = {}
                   /\ \A c \in 1..Len(calls[p]) :
                          ResultsFor(calls[p][c].messages, req.id) = {}
                   /\ Len(calls[p]) = k => ~Terminal(p)
                   /\ Len(calls[p]) > k
                         => \A i2 \in 1..Len(received[p][k].tool_calls) :
                               Registered(received[p][k].tool_calls[i2].name)
                               => \E j \in 1..Len(invocations[p]) :
                                     invocations[p][j].id = received[p][k].tool_calls[i2].id

C13_Witness ==
    /\ Terminal(1)
    /\ WithTools
    /\ Len(calls[1]) >= 2
    /\ Len(received[1][1].tool_calls) = 2
    /\ received[1][1].tool_calls[1].name = UnknownName
    /\ received[1][1].tool_calls[2].name = ToolName
    /\ Len(invocations[1]) = 1
    /\ invocations[1][1].id = <<1, 2, 1>>

\* The ids of a sequence of requests, invocations (field id) in order.
IdsOf(s) == [j \in 1..Len(s) |-> s[j].id]

\* The ids of the registered-name requests of turn k, in the order the model
\* emitted them.
RegisteredIds(p, k) ==
    LET R(req) == Registered(req.name)
    IN  IdsOf(SelectSeq(received[p][k].tool_calls, R))

\* The ids of the invocations made for turn k, in the order they were made,
\* and of those that have completed.
InvokedIds(p, k) ==
    LET T(inv) == inv.id[1] = k
    IN  IdsOf(SelectSeq(invocations[p], T))
CompletedIds(p, k) ==
    LET T(inv) == inv.id[1] = k /\ inv.outcome # "pending"
    IN  IdsOf(SelectSeq(invocations[p], T))

\* The correlation ids of the tool messages for turn k in a sequence of
\* messages, in the order they stand there.
ResultIds(msgs, k) ==
    LET T(m) == m.role = "tool" /\ m.tool_call_id[1] = k
    IN  [j \in 1..Len(SelectSeq(msgs, T)) |-> SelectSeq(msgs, T)[j].tool_call_id]

IsPrefix(s, t) == Len(s) <= Len(t) /\ \A j \in 1..Len(s) : s[j] = t[j]

\* C14: within a dispatched turn k the tools are invoked one at a time in
\* the order of the requests (only the latest invocation can be pending, and
\* then no Model Client call is outstanding), the tool messages stand in that
\* same order, and when call k + 1 is issued every registered-name request of
\* the turn has been invoked and has completed, failed ones included, with
\* its tool message in the conversation sent.
C14_InOrderDispatch ==
    \A p \in Procs :
        /\ \A j \in 1..Len(invocations[p]) :
               invocations[p][j].outcome = "pending"
               => (j = Len(invocations[p]) /\ pc[p] = "L81")
        /\ \A k \in Dispatched(p) :
               /\ IsPrefix(InvokedIds(p, k), RegisteredIds(p, k))
               /\ Len(calls[p]) = k
                     => ResultIds(tool_messages[p], k) = CompletedIds(p, k)
               /\ Len(calls[p]) > k
                     => /\ InvokedIds(p, k) = RegisteredIds(p, k)
                        /\ CompletedIds(p, k) = RegisteredIds(p, k)
                        /\ ResultIds(calls[p][k + 1].messages, k) = RegisteredIds(p, k)

C14_Witness ==
    /\ Terminal(1)
    /\ Len(calls[1]) >= 2
    /\ Len(received[1][1].tool_calls) = 2
    /\ Len(invocations[1]) = 2
    /\ invocations[1][1].outcome = "raised"
    /\ invocations[1][2].outcome = "returned"
    /\ ResultIds(calls[1][2].messages, 1) = <<<<1, 1, 1>>, <<1, 2, 1>>>>

\* The assistant messages of a sequence of messages, in order.
AssistantTurns(msgs) ==
    LET T(m) == m.role = "assistant"
    IN  SelectSeq(msgs, T)

\* The position of the k-th assistant message of a sequence of messages.
AssistantPos(msgs, k) ==
    CHOOSE a \in 1..Len(msgs) :
        /\ msgs[a].role = "assistant"
        /\ Len(AssistantTurns(SubSeq(msgs, 1, a))) = k

\* C15: the conversation of every Model Client call after the first, the
\* schema-only call included, holds every turn received before it, in order,
\* each followed by the tool messages produced for it: no received turn is
\* dropped.
C15_CallsCarryEveryTurn ==
    \A p \in Procs : \A c \in 2..Len(calls[p]) :
        LET msgs == calls[p][c].messages
        IN  /\ Len(AssistantTurns(msgs)) = c - 1
            /\ \A k \in 1..(c - 1) :
                   /\ AssistantTurns(msgs)[k].tool_calls = received[p][k].tool_calls
                   /\ \A j \in ResultsOfTurn(msgs, k) :
                          /\ AssistantPos(msgs, k) < j
                          /\ k < c - 1 => j < AssistantPos(msgs, k + 1)

\* C16 as stated: when an inspected turn k holds a schema-named request with
\* non-empty arguments that violate the schema, the invocation fails with
\* the validation error, and after turn k no call is issued and no tool is
\* invoked.
C16_AnyInvalidSchemaRequestFails ==
    \A p \in Procs : \A k \in Inspected(p) :
        (\E i \in SchemaRequests(received[p][k]) :
             /\ received[p][k].tool_calls[i].args # EmptyArgs
             /\ ~Conforms(received[p][k].tool_calls[i].args))
        => /\ Len(calls[p]) = k
           /\ \A j \in 1..Len(invocations[p]) : invocations[p][j].id[1] < k
           /\ pc[p] \in {"L57", "failed"}
           /\ pc[p] = "failed"
                 => (result[p].kind = "error" /\ result[p].error = "ValidationError")

\* C16 as amended: when the FIRST schema-named request of an inspected turn
\* k has non-empty arguments that violate the schema, the invocation fails
\* with the validation error, and after turn k no call is issued and no tool
\* is invoked.
C16_FirstInvalidSchemaRequestFails ==
    \A p \in Procs : \A k \in Inspected(p) :
        ( /\ SchemaRequests(received[p][k]) # {}
          /\ received[p][k].tool_calls[FirstSchemaRequest(received[p][k])].args # EmptyArgs
          /\ ~Conforms(received[p][k].tool_calls[FirstSchemaRequest(received[p][k])].args) )
        => /\ Len(calls[p]) = k
           /\ \A j \in 1..Len(invocations[p]) : invocations[p][j].id[1] < k
           /\ pc[p] \in {"L57", "failed"}
           /\ pc[p] = "failed"
                 => (result[p].kind = "error" /\ result[p].error = "ValidationError")

C16_Witness ==
    /\ pc[1] = "failed"
    /\ result[1].error = "ValidationError"
    /\ WithTools
    /\ Len(calls[1]) = 2
    /\ Len(invocations[1]) = 1
    /\ received[1][2].tool_calls[1].name = ToolName
    /\ received[1][2].tool_calls[2].args = InvalidArgs

\* The conversation the caller passes.
InitialConversation ==
    <<[role |-> "system", tool_calls |-> <<>>, content |-> <<"classify">>,
       tool_call_id |-> <<0, 0, 0>>],
      [role |-> "human", tool_calls |-> <<>>, content |-> <<"Chapter 1">>,
       tool_call_id |-> <<0, 0, 0>>]>>

\* msgs is the initial conversation followed only by assistant turns that
\* invocation p received, in the order it received them, and by tool
\* messages answering requests of p's turns.
OwnConversation(p, msgs) ==
    /\ IsPrefix(InitialConversation, msgs)
    /\ \A j \in 3..Len(msgs) : msgs[j].role \in {"assistant", "tool"}
    /\ Len(AssistantTurns(msgs)) <= Len(received[p])
    /\ \A k \in 1..Len(AssistantTurns(msgs)) :
           /\ received[p][k].kind = "turn"
           /\ AssistantTurns(msgs)[k].tool_calls = received[p][k].tool_calls
    /\ \A j \in 1..Len(msgs) :
           msgs[j].role = "tool"
           => /\ msgs[j].tool_call_id[3] = p
              /\ \E i \in 1..Len(invocations[p]) :
                     invocations[p][i].id = msgs[j].tool_call_id

\* What invocation p yields when it runs alone with budget[p], the caller's
\* tools and the replies received[p]: the error of a failed call, the
\* instance of the structured call, the outcome of the first schema-named
\* request of the first inspected turn that has one, or else the reply of
\* the schema-only call.
SoloResult(p) ==
    LET n == Len(received[p])
        last == received[p][n]
    IN  IF budget[p] < 1
        THEN [kind |-> "error", tool_calls |-> <<>>, fields |-> EmptyArgs,
              error |-> "AssertionError"]
        ELSE IF last.kind # "turn" \/ n >= budget[p]
        THEN last
        ELSE LET args == last.tool_calls[FirstSchemaRequest(last)].args
             IN  IF args = EmptyArgs
                 THEN [kind |-> "error", tool_calls |-> <<>>, fields |-> EmptyArgs,
                       error |-> "Exception: Tool call result empty"]
                 ELSE IF Conforms(args)
                 THEN [kind |-> "instance", tool_calls |-> <<>>, error |-> "",
                       fields |-> [f \in SchemaFields |-> args[f]]]
                 ELSE [kind |-> "error", tool_calls |-> <<>>, fields |-> EmptyArgs,
                       error |-> "ValidationError"]

\* C17: of two invocations started on the same conversation list and tools
\* list and interleaved at their awaits, each one's conversation, and every
\* conversation it sends to the Model Client, is the initial conversation
\* followed only by its own turns and its own tool messages; it invokes
\* tools only for its own requests; and what it returns or raises is what it
\* yields alone on the same budget, tools and replies.
C17_NoInterference ==
    \A p \in Procs :
        Active(p)
        => /\ OwnConversation(p, Msgs(p))
           /\ \A c \in 1..Len(calls[p]) : OwnConversation(p, calls[p][c].messages)
           /\ \A i \in 1..Len(invocations[p]) : invocations[p][i].id[3] = p
           /\ Terminal(p) => result[p] = SoloResult(p)

C17_Witness ==
    /\ \A p \in Procs : pc[p] = "returned" /\ Len(calls[p]) = 3
    /\ Len(invocations[1]) = 1
    /\ Len(Msgs(1)) = 4
    /\ Len(Msgs(2)) = 3
    /\ callerMessages = InitialConversation

\* C18: every step leaves the caller's conversation list and tools list as
\* they are, and leaves each invocation's working conversation as it is or
\* extends it at the end: the conversation before the step is a prefix of
\* the conversation after it, and so is the caller's initial conversation.
C18_AppendOnlyAndCallerUntouched ==
    [][ /\ callerMessages' = callerMessages
        /\ callerTools' = callerTools
        /\ \A p \in Procs :
               Active(p)
               => /\ IsPrefix(Msgs(p), Msgs(p)')
                  /\ IsPrefix(InitialConversation, Msgs(p)') ]_vars

C18_Witness ==
    /\ Terminal(1)
    /\ Len(Msgs(1)) > Len(InitialConversation) + 2
    /\ callerMessages = InitialConversation
    /\ callerTools.items = <<Reviews>>

\* The request of invocation p that carries correlation id `id`: the
\* id[2]-th request of its id[1]-th turn.
HasRequest(p, id) ==
    /\ id[1] \in 1..Len(received[p])
    /\ received[p][id[1]].kind = "turn"
    /\ id[2] \in 1..Len(received[p][id[1]].tool_calls)
    /\ received[p][id[1]].tool_calls[id[2]].id = id
RequestOf(p, id) == received[p][id[1]].tool_calls[id[2]]

\* In msgs every tool message is the only one with its correlation id, and
\* the id is that of a request of the nearest assistant turn before it.
ResultsAnswerTurnBefore(msgs) ==
    \A j \in 1..Len(msgs) :
        msgs[j].role = "tool"
        => /\ ResultsFor(msgs, msgs[j].tool_call_id) = {j}
           /\ \E a \in 1..(j - 1) :
                  /\ msgs[a].role = "assistant"
                  /\ \A b \in (a + 1)..(j - 1) : msgs[b].role = "tool"
                  /\ \E i \in 1..Len(msgs[a].tool_calls) :
                         msgs[a].tool_calls[i].id = msgs[j].tool_call_id

\* C19: no two invocations are made for one request; each invocation is made
\* for a request of a received turn, with that request's arguments, on the
\* first registered tool of the requested name; each request has at most one
\* tool message, in the list being built and in every conversation, where it
\* follows the assistant turn that holds the request.
C19_OneInvocationOneResult ==
    \A p \in Procs :
        /\ \A i, j \in 1..Len(invocations[p]) :
               invocations[p][i].id = invocations[p][j].id => i = j
        /\ \A i \in 1..Len(invocations[p]) :
               LET inv == invocations[p][i]
               IN  /\ HasRequest(p, inv.id)
                   /\ inv.args = RequestOf(p, inv.id).args
                   /\ callerTools.items[inv.tool].hasName
                   /\ callerTools.items[inv.tool].name = RequestOf(p, inv.id).name
                   /\ \A t \in 1..(inv.tool - 1) :
                          ~(/\ callerTools.items[t].hasName
                            /\ callerTools.items[t].name = RequestOf(p, inv.id).name)
        /\ \A j \in 1..Len(tool_messages[p]) :
               /\ ResultsFor(tool_messages[p], tool_messages[p][j].tool_call_id) = {j}
               /\ HasRequest(p, tool_messages[p][j].tool_call_id)
               /\ tool_messages[p][j].tool_call_id[1] = tool_messages[p][1].tool_call_id[1]
        /\ ResultsAnswerTurnBefore(Msgs(p))
        /\ \A c \in 1..Len(calls[p]) : ResultsAnswerTurnBefore(calls[p][c].messages)

C19_Witness ==
    /\ Terminal(1)
    /\ callerTools.items = <<Plain, Reviews, Reviews2>>
    /\ Len(calls[1]) >= 2
    /\ Len(invocations[1]) = 2
    /\ invocations[1][1].outcome = "raised"
    /\ invocations[1][1].tool = 2
    /\ invocations[1][2].outcome = "returned"
    /\ Len(received[1][1].tool_calls) = 3

====
